---- MODULE Spec2Model ----
(***************************************************************************)
(* UniqueTimedEntryQueue (src/index.ts, the variant with event listeners,  *)
(* the admitted-duplicate guard and the pending export) as a state         *)
(* machine.  One action per public method, one for the expiry of a         *)
(* setTimeout callback, one for the passage of a millisecond and one for   *)
(* the exit hook.                                                          *)
(*                                                                         *)
(* Time is relative: every armed timer carries the milliseconds that are   *)
(* left before it is due.  The host fires due timers in the order of their *)
(* expiry; timers of one duration that expire together fire in the order   *)
(* in which they were armed; a due timer may be late by at most MaxLate    *)
(* milliseconds (a busy event loop).                                       *)
(*                                                                         *)
(* A listener is a callback of the caller: it either returns or throws.    *)
(* Entries are values for which valueToString returns a string.            *)
(***************************************************************************)
EXTENDS Integers, Sequences, FiniteSets, TLC

\* ------------------------------------------------------------------ bounds
MaxDelay == 2
MaxLate == 0
MaxListeners == 3
MaxList == 2

\* ------------------------------------------------------------------ values
\* A JavaScript value: its typeof tag, its numeric payload (the number
\* itself, or the reference of an object) and its text payload (the string
\* itself, or the JSON text of an object).
NumberValue(n) == [type |-> "number", num |-> n, str |-> ""]
StringValue(s) == [type |-> "string", num |-> 0, str |-> s]
Undefined == [type |-> "undefined", num |-> 0, str |-> ""]
\* An object that refers to itself: JSON.stringify has no text for it and
\* throws a TypeError.
CircularObject == [type |-> "object", num |-> 1, str |-> ""]

BooleanValue(b) == [type |-> "boolean", num |-> IF b THEN 1 ELSE 0, str |-> ""]
Null == [type |-> "null", num |-> 0, str |-> ""]
\* The object { key: 'value' }, by its reference and its JSON text.
KeyValueObject == [type |-> "object", num |-> 2, str |-> "{\"key\":\"value\"}"]

Entries == {NumberValue(1), StringValue("1"), StringValue("a")}
\* Entries of the other types, with pairwise distinct keys.
TypedEntries == {BooleanValue(TRUE), Null, KeyValueObject}

Digit(d) ==
  CASE d = 0 -> "0" [] d = 1 -> "1" [] d = 2 -> "2" [] d = 3 -> "3"
    [] d = 4 -> "4" [] d = 5 -> "5" [] d = 6 -> "6" [] d = 7 -> "7"
    [] d = 8 -> "8" [] d = 9 -> "9"

RECURSIVE NumberToString(_)
NumberToString(n) ==
  IF n < 10 THEN Digit(n) ELSE NumberToString(n \div 10) \o Digit(n % 10)

valueToString(value) ==
  IF value.type = "string" THEN value.str
  ELSE IF value.type \in {"number", "boolean", "bigint"}
    THEN (IF value.type = "boolean"
            THEN (IF value.num = 1 THEN "true" ELSE "false")
            ELSE NumberToString(value.num))
  ELSE IF value.type \in {"null", "undefined"} THEN ""
  ELSE value.str

\* valueToString(value) throws: value is an object JSON.stringify rejects.
valueToStringThrows(value) == value.type = "object" /\ value.str = ""

Keys == {valueToString(e) : e \in Entries \cup TypedEntries}

\* The optional second argument of enqueue: omitted (the default delay,
\* the longest one), or a number (a shorter delay).
Omitted == [given |-> FALSE, ms |-> 0]
Given(d) == [given |-> TRUE, ms |-> d]
DelayArgs == {Omitted, Given(0), Given(1)}

ListenerKinds == {"returns", "throws"}

\* ---------------------------------------------------------------- helpers
MathMax(a, b) == IF a >= b THEN a ELSE b

Includes(q, e) == \E i \in 1 .. Len(q) : q[i] = e

\* Map<string, {timeout, value}>: a sequence of records in insertion order.
MapHas(m, k) == \E i \in 1 .. Len(m) : m[i].key = k
MapGet(m, k) == m[CHOOSE i \in 1 .. Len(m) : m[i].key = k]
MapDelete(m, k) == SelectSeq(m, LAMBDA r : r.key # k)
MapSet(m, k, timeout, value) ==
  LET rec == [key |-> k, timeout |-> timeout, value |-> value]
  IN IF MapHas(m, k)
       THEN [i \in 1 .. Len(m) |-> IF m[i].key = k THEN rec ELSE m[i]]
       ELSE Append(m, rec)
MapIndex(m, k) ==
  IF MapHas(m, k) THEN CHOOSE i \in 1 .. Len(m) : m[i].key = k ELSE 0

\* The host's timers: the armed ones, in the order they were armed.
TimerIds(tms) == {tms[i].id : i \in 1 .. Len(tms)}
NewTimerId(tms) == CHOOSE i \in 1 .. Len(tms) + 1 :
  /\ i \notin TimerIds(tms)
  /\ \A j \in 1 .. Len(tms) + 1 : j \notin TimerIds(tms) => i <= j
setTimeout(tms, id, key, entry, delay) ==
  Append(tms, [id |-> id, key |-> key, entry |-> entry,
               delay |-> delay, left |-> delay])
clearTimeout(tms, id) == SelectSeq(tms, LAMBDA t : t.id # id)

\* ------------------------------------------------------------------- state
VARIABLES
  enqueueDelayMilliseconds, \* the stored default delay
  queue,                    \* T[]: the admitted entries
  pendingEntries,           \* Map key -> {timeout, value}
  eventListeners,           \* eventListeners.enqueue, in insertion order
  nextListenerId,           \* the listener ids issued so far
  timers,                   \* the host's armed timers
  running,                  \* FALSE once the exit hook has run
  status,                   \* history: per key, how its last submission stands
  admitted,                 \* history: the entries of the queue in admission order
  last                      \* history: the operation that led to this state

vars == <<enqueueDelayMilliseconds, queue, pendingEntries, eventListeners,
          nextListenerId, timers, running, status, admitted, last>>

\* The history of a key's last submission: idle (none outstanding: never
\* enqueued, admitted, flushed or cancelled) or waiting (enqueued with the
\* positive delay `delay`, `waited` milliseconds ago).
\* `reset` tells that the submission replaced one that was still waiting,
\* `value` is the entry that was submitted.
Idle ==
  [st |-> "idle", delay |-> 0, waited |-> 0, reset |-> FALSE,
   value |-> Undefined]
Waiting(d, reset, value) ==
  [st |-> "waiting", delay |-> d, waited |-> 0, reset |-> reset,
   value |-> value]
MaxWaited == MaxDelay + MaxLate + 1

\* The operation that led to a state: its name, its entry argument, what it
\* found (the key pending, the queue non-empty, the listener registered, the
\* queue just left by clearAll, a listener that threw), the
\* number it returned or worked on, the entries it pushed and the listener
\* invocations it made, in order; for a timer, how its key's last submission
\* stood when it fired; for enqueue, the value of the record it found.  For enqueueAll: the length of its list, whether it
\* threw, for how many entries of the list it has called enqueue, and what
\* the statements enqueue(entries[1], d); enqueue(entries[2], d); ... leave
\* behind.
NoLast ==
  [op |-> "new", entry |-> Undefined, found |-> FALSE, count |-> 0,
   pushed |-> <<>>, calls |-> <<>>, sub |-> Idle, called |-> 0,
   each |-> <<>>]

\* -------------------------------------------------------------- the methods
\* What a method leaves behind: the queue, the pending map, the armed
\* timers, the entries it pushed, the listener invocations it made, and
\* whether it ended by an exception of a listener.
Result(q, pend, tms, pushed, calls, threw) ==
  [queue |-> q, pendingEntries |-> pend, timers |-> tms,
   pushed |-> pushed, calls |-> calls, threw |-> threw]

\* The earliest variant of the constructor: the argument stored as it is.
ConstructorStores(arg) == arg

Constructor(arg) == MathMax(0, arg)

\* clear reading the length after it has truncated the queue.
clearCountsAfter(q) == [queue |-> <<>>, clearedCount |-> Len(<<>>)]

clear(q) == [queue |-> <<>>, clearedCount |-> Len(q)]

\* clearPending without its clearTimeout loop: the timers stay armed.
clearPendingKeepsTimers(pend, tms) ==
  [pendingEntries |-> <<>>, timers |-> tms, pendingCount |-> Len(pend)]

clearPending(pend, tms) ==
  [pendingEntries |-> <<>>,
   timers |-> SelectSeq(tms, LAMBDA t :
                ~\E i \in 1 .. Len(pend) : pend[i].timeout = t.id),
   pendingCount |-> Len(pend)]

\* clearAll without its call of clearPending.
clearAllQueueOnly(q, pend, tms) ==
  LET clearedQueue == clear(q)
  IN [queue |-> clearedQueue.queue, pendingEntries |-> pend, timers |-> tms,
      count |-> clearedQueue.clearedCount]

\* clearAll without its call of clear.
clearAllPendingOnly(q, pend, tms) ==
  LET clearedPending == clearPending(pend, tms)
  IN [queue |-> q, pendingEntries |-> clearedPending.pendingEntries,
      timers |-> clearedPending.timers,
      count |-> clearedPending.pendingCount]

clearAll(q, pend, tms) ==
  LET clearedPending == clearPending(pend, tms)
      clearedQueue == clear(q)
  IN [queue |-> clearedQueue.queue,
      pendingEntries |-> clearedPending.pendingEntries,
      timers |-> clearedPending.timers,
      count |-> clearedPending.pendingCount + clearedQueue.clearedCount]

\* clearPendingEntry without its clearTimeout: the record goes, the timer stays.
clearPendingEntryKeepsTimer(pend, tms, entry) ==
  LET stringEntry == valueToString(entry)
  IN IF MapHas(pend, stringEntry)
       THEN [pendingEntries |-> MapDelete(pend, stringEntry),
             timers |-> tms, found |-> TRUE]
       ELSE [pendingEntries |-> pend, timers |-> tms, found |-> FALSE]

\* clearPendingEntry testing the map's size instead of the key's presence.
clearPendingEntryAnyPending(pend, tms, entry) ==
  LET stringEntry == valueToString(entry)
  IN IF pend # <<>>
       THEN [pendingEntries |-> MapDelete(pend, stringEntry),
             timers |-> IF MapHas(pend, stringEntry)
                          THEN clearTimeout(tms, MapGet(pend, stringEntry).timeout)
                          ELSE tms,
             found |-> TRUE]
       ELSE [pendingEntries |-> pend, timers |-> tms, found |-> FALSE]

\* clearPendingEntry removing the oldest record in place of the entry's.
clearPendingEntryOldest(pend, tms, entry) ==
  LET stringEntry == valueToString(entry)
  IN IF MapHas(pend, stringEntry)
       THEN [pendingEntries |-> Tail(pend),
             timers |-> clearTimeout(tms, pend[1].timeout),
             found |-> TRUE]
       ELSE [pendingEntries |-> pend, timers |-> tms, found |-> FALSE]

clearPendingEntry(pend, tms, entry) ==
  LET stringEntry == valueToString(entry)
  IN IF MapHas(pend, stringEntry)
       THEN [pendingEntries |-> MapDelete(pend, stringEntry),
             timers |-> clearTimeout(tms, MapGet(pend, stringEntry).timeout),
             found |-> TRUE]
       ELSE [pendingEntries |-> pend, timers |-> tms, found |-> FALSE]

\* What a listener called with entry sees when it asks the queue: size(),
\* the last entry of toArray(), and hasPendingEntry(entry).
Seen(q, pend, entry) ==
  [size |-> Len(q),
   tail |-> IF q = <<>> THEN Undefined ELSE q[Len(q)],
   pending |-> MapHas(pend, valueToString(entry))]

\* A listener of the kind "enqueues" calls back into the queue:
\* queue.enqueue(ReenteredEntry, 1), which cancels the pending record of the
\* entry, arms a timer and stores the new record, and triggers no event.
ReenteredEntry == StringValue("a")
ReenteredDelay == Given(1)

enqueueByListener(pend, tms) ==
  LET c == clearPendingEntry(pend, tms, ReenteredEntry)
      stringEntry == valueToString(ReenteredEntry)
      timeout == NewTimerId(c.timers)
  IN [pendingEntries |->
        MapSet(c.pendingEntries, stringEntry, timeout, ReenteredEntry),
      timers |-> setTimeout(c.timers, timeout, stringEntry, ReenteredEntry,
                            ReenteredDelay.ms)]

\* triggerEvents going through the listeners from the one registered last.
RECURSIVE triggerEventsReversed(_, _, _, _, _)
triggerEventsReversed(listeners, entry, q, pend, tms) ==
  IF listeners = <<>>
    THEN [pendingEntries |-> pend, timers |-> tms, calls |-> <<>>,
          threw |-> FALSE]
  ELSE LET l == listeners[Len(listeners)]
           call == [id |-> l.id, entry |-> entry, seen |-> Seen(q, pend, entry)]
           left == IF l.kind = "enqueues" THEN enqueueByListener(pend, tms)
                   ELSE [pendingEntries |-> pend, timers |-> tms]
       IN IF l.kind = "throws"
            THEN [pendingEntries |-> pend, timers |-> tms, calls |-> <<call>>,
                  threw |-> TRUE]
            ELSE [triggerEventsReversed(
                    SubSeq(listeners, 1, Len(listeners) - 1), entry, q,
                    left.pendingEntries, left.timers)
                  EXCEPT !.calls = <<call>> \o @]

\* triggerEvents('enqueue', entry), called when the queue is q, the pending
\* map pend and the armed timers tms: the listeners are called in the order
\* of Object.values, each seeing what the ones before it have left, until one
\* throws.
RECURSIVE triggerEvents(_, _, _, _, _)
triggerEvents(listeners, entry, q, pend, tms) ==
  IF listeners = <<>>
    THEN [pendingEntries |-> pend, timers |-> tms, calls |-> <<>>,
          threw |-> FALSE]
  ELSE LET l == Head(listeners)
           call == [id |-> l.id, entry |-> entry, seen |-> Seen(q, pend, entry)]
           left == IF l.kind = "enqueues" THEN enqueueByListener(pend, tms)
                   ELSE [pendingEntries |-> pend, timers |-> tms]
       IN IF l.kind = "throws"
            THEN [pendingEntries |-> pend, timers |-> tms, calls |-> <<call>>,
                  threw |-> TRUE]
            ELSE [triggerEvents(Tail(listeners), entry, q,
                                left.pendingEntries, left.timers)
                  EXCEPT !.calls = <<call>> \o @]

\* dequeue with pop in place of shift.
dequeuePop(q) ==
  IF q = <<>> THEN [queue |-> q, value |-> Undefined]
  ELSE [queue |-> SubSeq(q, 1, Len(q) - 1), value |-> q[Len(q)]]

dequeue(q) ==
  IF q = <<>> THEN [queue |-> q, value |-> Undefined]
  ELSE [queue |-> Tail(q), value |-> Head(q)]

\* The delay computed with || in place of ??: a given 0 counts as omitted.
EffectiveDelayOr(entryDelayMilliseconds, dflt) ==
  IF entryDelayMilliseconds.given /\ entryDelayMilliseconds.ms # 0
    THEN entryDelayMilliseconds.ms ELSE dflt

EffectiveDelay(entryDelayMilliseconds, dflt) ==
  IF entryDelayMilliseconds.given THEN entryDelayMilliseconds.ms ELSE dflt

\* enqueue without its call of clearPendingEntry: the old timer stays armed.
enqueueKeepsTimer(q, pend, tms, listeners, dflt, entry, entryDelayMilliseconds) ==
  LET delay == EffectiveDelay(entryDelayMilliseconds, dflt)
  IN IF delay <= 0
       THEN IF Includes(q, entry)
              THEN Result(q, pend, tms, <<>>, <<>>, FALSE)
              ELSE LET ev == triggerEvents(listeners, entry,
                                            Append(q, entry), pend, tms)
                   IN Result(Append(q, entry), ev.pendingEntries, ev.timers,
                             <<entry>>, ev.calls, ev.threw)
       ELSE LET stringEntry == valueToString(entry)
                timeout == NewTimerId(tms)
            IN Result(q, MapSet(pend, stringEntry, timeout, entry),
                      setTimeout(tms, timeout, stringEntry, entry, delay),
                      <<>>, <<>>, FALSE)

\* enqueue that leaves an entry which is already pending as it is.
enqueueNoReset(q, pend, tms, listeners, dflt, entry, entryDelayMilliseconds) ==
  LET delay == EffectiveDelay(entryDelayMilliseconds, dflt)
      stringEntry == valueToString(entry)
  IN IF delay > 0 /\ MapHas(pend, stringEntry)
       THEN Result(q, pend, tms, <<>>, <<>>, FALSE)
       ELSE LET c == clearPendingEntry(pend, tms, entry)
            IN IF delay <= 0
                 THEN IF Includes(q, entry)
                        THEN Result(q, c.pendingEntries, c.timers, <<>>, <<>>, FALSE)
                        ELSE LET ev == triggerEvents(listeners, entry,
                                                      Append(q, entry),
                                                      c.pendingEntries, c.timers)
                             IN Result(Append(q, entry), ev.pendingEntries,
                                       ev.timers, <<entry>>, ev.calls, ev.threw)
                 ELSE LET timeout == NewTimerId(c.timers)
                      IN Result(q,
                                MapSet(c.pendingEntries, stringEntry, timeout, entry),
                                setTimeout(c.timers, timeout, stringEntry, entry, delay),
                                <<>>, <<>>, FALSE)

\* enqueue whose zero-delay branch has no queue.includes guard.
enqueueNoGuard(q, pend, tms, listeners, dflt, entry, entryDelayMilliseconds) ==
  LET c == clearPendingEntry(pend, tms, entry)
      delay == EffectiveDelay(entryDelayMilliseconds, dflt)
  IN IF delay <= 0
       THEN LET ev == triggerEvents(listeners, entry, Append(q, entry),
                                     c.pendingEntries, c.timers)
            IN Result(Append(q, entry), ev.pendingEntries, ev.timers,
                      <<entry>>, ev.calls, ev.threw)
       ELSE LET stringEntry == valueToString(entry)
                timeout == NewTimerId(c.timers)
            IN Result(q,
                      MapSet(c.pendingEntries, stringEntry, timeout, entry),
                      setTimeout(c.timers, timeout, stringEntry, entry, delay),
                      <<>>, <<>>, FALSE)

\* (its first statement, clearPendingEntry(entry), computes the key: when
\* that throws, nothing has been done yet)
enqueue(q, pend, tms, listeners, dflt, entry, entryDelayMilliseconds) ==
  LET c == clearPendingEntry(pend, tms, entry)
      delay == EffectiveDelay(entryDelayMilliseconds, dflt)
  IN IF valueToStringThrows(entry)
       THEN Result(q, pend, tms, <<>>, <<>>, TRUE)
     ELSE IF delay <= 0
       THEN IF Includes(q, entry)
              THEN Result(q, c.pendingEntries, c.timers, <<>>, <<>>, FALSE)
              ELSE LET ev == triggerEvents(listeners, entry,
                                            Append(q, entry),
                                            c.pendingEntries, c.timers)
                   IN Result(Append(q, entry), ev.pendingEntries, ev.timers,
                             <<entry>>, ev.calls, ev.threw)
       ELSE LET stringEntry == valueToString(entry)
                timeout == NewTimerId(c.timers)
            IN Result(q,
                      MapSet(c.pendingEntries, stringEntry, timeout, entry),
                      setTimeout(c.timers, timeout, stringEntry, entry, delay),
                      <<>>, <<>>, FALSE)

\* enqueueAll: the for loop over entries; an exception of enqueue leaves the
\* loop.  done is what the calls made so far have left; `called` counts them,
\* `submitted` are the entries whose enqueue got beyond the key computation.
RECURSIVE enqueueAllLoop(_, _, _, _, _)
enqueueAllLoop(entries, done, listeners, dflt, entryDelayMilliseconds) ==
  IF entries = <<>> THEN done
  ELSE LET entry == Head(entries)
           r == enqueue(done.queue, done.pendingEntries, done.timers,
                        listeners, dflt, entry, entryDelayMilliseconds)
           next == [queue |-> r.queue, pendingEntries |-> r.pendingEntries,
                    timers |-> r.timers,
                    pushed |-> done.pushed \o r.pushed,
                    calls |-> done.calls \o r.calls,
                    threw |-> r.threw,
                    called |-> done.called + 1,
                    submitted |-> IF valueToStringThrows(entry)
                                    THEN done.submitted
                                    ELSE Append(done.submitted, entry)]
       IN IF next.threw THEN next
          ELSE enqueueAllLoop(Tail(entries), next, listeners, dflt,
                              entryDelayMilliseconds)

\* enqueueAll going through its list from the end.
enqueueAllReversed(q, pend, tms, listeners, dflt, entries, entryDelayMilliseconds) ==
  enqueueAllLoop([i \in 1 .. Len(entries) |-> entries[Len(entries) + 1 - i]],
                 [queue |-> q, pendingEntries |-> pend, timers |-> tms,
                  pushed |-> <<>>, calls |-> <<>>, threw |-> FALSE,
                  called |-> 0, submitted |-> <<>>],
                 listeners, dflt, entryDelayMilliseconds)

enqueueAll(q, pend, tms, listeners, dflt, entries, entryDelayMilliseconds) ==
  enqueueAllLoop(entries,
                 [queue |-> q, pendingEntries |-> pend, timers |-> tms,
                  pushed |-> <<>>, calls |-> <<>>, threw |-> FALSE,
                  called |-> 0, submitted |-> <<>>],
                 listeners, dflt, entryDelayMilliseconds)

\* The callback with unshift in place of push.
timerCallbackUnshift(q, pend, tms, listeners, t) ==
  LET pend1 == MapDelete(pend, t.key)
  IN IF Includes(q, t.entry)
       THEN Result(q, pend1, tms, <<>>, <<>>, FALSE)
       ELSE LET ev == triggerEvents(listeners, t.entry, <<t.entry>> \o q,
                                     pend1, tms)
            IN Result(<<t.entry>> \o q, ev.pendingEntries, ev.timers,
                      <<t.entry>>, ev.calls, ev.threw)

\* The callback without its queue.includes guard.
timerCallbackNoGuard(q, pend, tms, listeners, t) ==
  LET pend1 == MapDelete(pend, t.key)
      ev == triggerEvents(listeners, t.entry, Append(q, t.entry), pend1, tms)
  IN Result(Append(q, t.entry), ev.pendingEntries, ev.timers, <<t.entry>>,
            ev.calls, ev.threw)

\* The callback leaving the record of its key in the pending map.
timerCallbackKeepsRecord(q, pend, tms, listeners, t) ==
  IF Includes(q, t.entry)
    THEN Result(q, pend, tms, <<>>, <<>>, FALSE)
    ELSE LET ev == triggerEvents(listeners, t.entry, Append(q, t.entry),
                                  pend, tms)
         IN Result(Append(q, t.entry), ev.pendingEntries, ev.timers,
                   <<t.entry>>, ev.calls, ev.threw)

\* The callback calling the listeners first, and deleting and pushing after.
timerCallbackNotifiesFirst(q, pend, tms, listeners, t) ==
  IF Includes(q, t.entry)
    THEN Result(q, MapDelete(pend, t.key), tms, <<>>, <<>>, FALSE)
    ELSE LET ev == triggerEvents(listeners, t.entry, q, pend, tms)
         IN Result(Append(q, t.entry), MapDelete(ev.pendingEntries, t.key),
                   ev.timers, <<t.entry>>, ev.calls, ev.threw)

\* The callback pushing the key of the entry in place of the entry.
timerCallbackPushesKey(q, pend, tms, listeners, t) ==
  LET pend1 == MapDelete(pend, t.key)
  IN IF Includes(q, t.entry)
       THEN Result(q, pend1, tms, <<>>, <<>>, FALSE)
       ELSE LET ev == triggerEvents(listeners, t.entry,
                                     Append(q, StringValue(t.key)), pend1, tms)
            IN Result(Append(q, StringValue(t.key)), ev.pendingEntries,
                      ev.timers, <<t.entry>>, ev.calls, ev.threw)

\* The callback enqueue hands to setTimeout; t is the timer that fires.
timerCallback(q, pend, tms, listeners, t) ==
  LET pend1 == MapDelete(pend, t.key)
  IN IF Includes(q, t.entry)
       THEN Result(q, pend1, tms, <<>>, <<>>, FALSE)
       ELSE LET ev == triggerEvents(listeners, t.entry, Append(q, t.entry),
                                     pend1, tms)
            IN Result(Append(q, t.entry), ev.pendingEntries, ev.timers,
                      <<t.entry>>, ev.calls, ev.threw)

\* enqueuePending: the for loop over pendingEntries.keys().  The iterator of
\* a Map is live: it goes on to the keys set while the loop runs, and every
\* key it has visited has been deleted, so its next key is the first key of
\* the map as it is then; the loop ends when no key is left or a listener
\* throws.
RECURSIVE enqueuePendingLoop(_, _, _, _)
enqueuePendingLoop(q, pend, tms, listeners) ==
  IF pend = <<>> THEN Result(q, pend, tms, <<>>, <<>>, FALSE)
  ELSE LET stringValue == pend[1].key
           pendingEntry == MapGet(pend, stringValue)
           pend1 == MapDelete(pend, stringValue)
           tms1 == clearTimeout(tms, pendingEntry.timeout)
       IN IF Includes(q, pendingEntry.value)
            THEN enqueuePendingLoop(q, pend1, tms1, listeners)
            ELSE LET q1 == Append(q, pendingEntry.value)
                     ev == triggerEvents(listeners, pendingEntry.value, q1,
                                         pend1, tms1)
                 IN IF ev.threw
                      THEN Result(q1, ev.pendingEntries, ev.timers,
                                  <<pendingEntry.value>>, ev.calls, TRUE)
                      ELSE LET rest == enqueuePendingLoop(
                                         q1, ev.pendingEntries, ev.timers,
                                         listeners)
                           IN [rest EXCEPT
                                 !.pushed = <<pendingEntry.value>> \o @,
                                 !.calls = ev.calls \o @]

\* enqueuePending going through the keys that are pending when it is called,
\* and no others.
RECURSIVE enqueuePendingOverKeys(_, _, _, _, _)
enqueuePendingOverKeys(keys, q, pend, tms, listeners) ==
  IF keys = <<>> THEN Result(q, pend, tms, <<>>, <<>>, FALSE)
  ELSE IF ~MapHas(pend, Head(keys))
    THEN enqueuePendingOverKeys(Tail(keys), q, pend, tms, listeners)
  ELSE LET pendingEntry == MapGet(pend, Head(keys))
           pend1 == MapDelete(pend, Head(keys))
           tms1 == clearTimeout(tms, pendingEntry.timeout)
       IN IF Includes(q, pendingEntry.value)
            THEN enqueuePendingOverKeys(Tail(keys), q, pend1, tms1, listeners)
            ELSE LET q1 == Append(q, pendingEntry.value)
                     ev == triggerEvents(listeners, pendingEntry.value, q1,
                                         pend1, tms1)
                 IN IF ev.threw
                      THEN Result(q1, ev.pendingEntries, ev.timers,
                                  <<pendingEntry.value>>, ev.calls, TRUE)
                      ELSE LET rest == enqueuePendingOverKeys(
                                         Tail(keys), q1, ev.pendingEntries,
                                         ev.timers, listeners)
                           IN [rest EXCEPT
                                 !.pushed = <<pendingEntry.value>> \o @,
                                 !.calls = ev.calls \o @]

enqueuePendingSnapshot(q, pend, tms, listeners) ==
  enqueuePendingOverKeys([i \in 1 .. Len(pend) |-> pend[i].key], q, pend, tms,
                         listeners)

\* enqueuePending without its clearTimeout: the timers stay armed.
enqueuePendingKeepsTimers(q, pend, tms, listeners) ==
  LET r == enqueuePendingLoop(q, pend, tms, listeners)
  IN Result(r.queue, r.pendingEntries, tms, r.pushed, r.calls, r.threw)

enqueuePending(q, pend, tms, listeners) ==
  enqueuePendingLoop(q, pend, tms, listeners)

addEventListener(listeners, listenerId, listener) ==
  IF \E i \in 1 .. Len(listeners) : listeners[i].id = listenerId
    THEN [i \in 1 .. Len(listeners) |->
            IF listeners[i].id = listenerId
              THEN [id |-> listenerId, kind |-> listener] ELSE listeners[i]]
    ELSE Append(listeners, [id |-> listenerId, kind |-> listener])

\* removeEventListener dropping the listener registered last when the id is
\* not registered.
removeEventListenerOrLast(listeners, listenerId) ==
  IF \E i \in 1 .. Len(listeners) : listeners[i].id = listenerId
    THEN SelectSeq(listeners, LAMBDA l : l.id # listenerId)
    ELSE SubSeq(listeners, 1, Len(listeners) - 1)

removeEventListener(listeners, listenerId) ==
  IF \E i \in 1 .. Len(listeners) : listeners[i].id = listenerId
    THEN SelectSeq(listeners, LAMBDA l : l.id # listenerId)
    ELSE listeners

\* generateUniqueListenerId: an id no earlier call has returned.
generateUniqueListenerId(issued) == issued + 1

\* The parameter default of the constructor: the delay when none is given.
DefaultEnqueueDelayMilliseconds == 60000
\* A constructor whose parameter has no default of its own.
DefaultParameterNone(arg) == arg.ms

DefaultParameter(arg) ==
  IF arg.given THEN arg.ms ELSE DefaultEnqueueDelayMilliseconds

\* ---------------------------------------------------------------- the queries
\* An array handed to the caller: its items, and whether it is the very
\* array the queue keeps (shared) or one of its own.
Array(items, shared) == [items |-> items, shared |-> shared]

enqueueDelay == enqueueDelayMilliseconds

hasPending == Len(pendingEntries) > 0

hasPendingEntry(entry) == MapHas(pendingEntries, valueToString(entry))

\* isEmpty looking at the pending map.
isEmptyOfPending == Len(pendingEntries) = 0

isEmpty == Len(queue) = 0

pendingSize == Len(pendingEntries)

pendingToArray ==
  Array([i \in 1 .. Len(pendingEntries) |-> pendingEntries[i].value], FALSE)

size == Len(queue)

\* toArray handing out the queue's own array.
toArrayShared == Array(queue, TRUE)

toArray == Array([i \in 1 .. Len(queue) |-> queue[i]], FALSE)

\* ---------------------------------------------------------------- history
Left(r) ==
  [queue |-> r.queue, pendingEntries |-> r.pendingEntries, timers |-> r.timers]

\* enqueue(entries[1], d); enqueue(entries[2], d); ...
RECURSIVE EnqueueEach(_, _, _, _, _)
EnqueueEach(entries, left, listeners, dflt, entryDelayMilliseconds) ==
  IF entries = <<>> THEN left
  ELSE LET r == enqueue(left.queue, left.pendingEntries, left.timers, listeners,
                        dflt, Head(entries), entryDelayMilliseconds)
       IN IF r.threw THEN Left(r)
          ELSE EnqueueEach(Tail(entries), Left(r), listeners, dflt,
                           entryDelayMilliseconds)

\* The history after the listeners of an operation have run: a listener
\* that calls back into the queue has submitted its entry, which is waiting
\* if its record is still pending when the operation ends.
AfterListeners(st, listeners, r) ==
  LET k == valueToString(ReenteredEntry)
  IN IF /\ MapHas(r.pendingEntries, k)
        /\ \E c \in 1 .. Len(r.calls), l \in 1 .. Len(listeners) :
             /\ listeners[l].id = r.calls[c].id
             /\ listeners[l].kind = "enqueues"
       THEN [st EXCEPT ![k] = Waiting(ReenteredDelay.ms,
                                      st[k].st = "waiting", ReenteredEntry)]
       ELSE st

RemoveFirst(s, e) ==
  IF Includes(s, e)
    THEN LET i == CHOOSE k \in 1 .. Len(s) :
                    s[k] = e /\ \A j \in 1 .. k - 1 : s[j] # e
         IN SubSeq(s, 1, i - 1) \o SubSeq(s, i + 1, Len(s))
    ELSE s

\* ----------------------------------------------------------------- actions
\* new UniqueTimedEntryQueue(arg), for one of the arguments args
Construct(args) ==
  /\ enqueueDelayMilliseconds \in {Constructor(a) : a \in args}
  /\ queue = <<>>
  /\ pendingEntries = <<>>
  /\ eventListeners = <<>>
  /\ nextListenerId = 0
  /\ timers = <<>>
  /\ running = TRUE
  /\ status = [k \in Keys |-> Idle]
  /\ admitted = <<>>
  /\ last = NoLast

Init == Construct({MaxDelay})

\* queue.enqueue(entry, entryDelayMilliseconds)
Enqueue(entry, entryDelayMilliseconds) ==
  LET r == enqueue(queue, pendingEntries, timers, eventListeners,
                   enqueueDelayMilliseconds, entry, entryDelayMilliseconds)
      delay == EffectiveDelay(entryDelayMilliseconds, enqueueDelayMilliseconds)
      k == valueToString(entry)
  IN /\ running
     /\ queue' = r.queue
     /\ pendingEntries' = r.pendingEntries
     /\ timers' = r.timers
     /\ status' = AfterListeners(
                     [status EXCEPT ![k] =
                        IF delay > 0
                          THEN Waiting(delay, status[k].st = "waiting", entry)
                          ELSE Idle],
                     eventListeners, r)
     /\ admitted' = admitted \o r.pushed
     /\ last' = [NoLast EXCEPT !.op = "enqueue", !.entry = entry,
                   !.found = MapHas(pendingEntries, k), !.count = delay,
                   !.pushed = r.pushed, !.calls = r.calls,
                   !.sub = [Idle EXCEPT !.value =
                              IF MapHas(pendingEntries, k)
                                THEN MapGet(pendingEntries, k).value
                                ELSE Undefined]]
     /\ UNCHANGED <<enqueueDelayMilliseconds, eventListeners, nextListenerId,
                    running>>

\* queue.enqueueAll(entries, entryDelayMilliseconds)
EnqueueAll(entries, entryDelayMilliseconds) ==
  LET before == [queue |-> queue, pendingEntries |-> pendingEntries,
                 timers |-> timers]
  IN
  \E r \in {enqueueAll(queue, pendingEntries, timers, eventListeners,
                        enqueueDelayMilliseconds, entries,
                        entryDelayMilliseconds)},
     each \in {EnqueueEach(entries, before, eventListeners,
                           enqueueDelayMilliseconds, entryDelayMilliseconds)} :
  LET delay == EffectiveDelay(entryDelayMilliseconds, enqueueDelayMilliseconds)
      Position(k) == {i \in 1 .. Len(r.submitted) :
                        valueToString(r.submitted[i]) = k}
  IN /\ running
     /\ queue' = r.queue
     /\ pendingEntries' = r.pendingEntries
     /\ timers' = r.timers
     /\ status' = AfterListeners(
                     [k \in Keys |->
                        IF Position(k) = {} THEN status[k]
                        ELSE IF delay > 0
                          THEN Waiting(delay,
                                       \/ status[k].st = "waiting"
                                       \/ Cardinality(Position(k)) > 1,
                                       r.submitted[CHOOSE i \in Position(k) :
                                                     \A j \in Position(k) :
                                                       j <= i])
                          ELSE Idle],
                     eventListeners, r)
     /\ admitted' = admitted \o r.pushed
     /\ last' = [NoLast EXCEPT !.op = "enqueueAll", !.count = Len(entries),
                   !.found = r.threw, !.pushed = r.pushed, !.calls = r.calls,
                   !.called = r.called, !.each = each]
     /\ UNCHANGED <<enqueueDelayMilliseconds, eventListeners, nextListenerId,
                    running>>

\* The host runs the callback of the armed timer that is next to fire.
FiresNext(tms, i) ==
  /\ tms[i].left <= 0
  /\ \A j \in 1 .. Len(tms) :
       j # i => \/ tms[j].left > tms[i].left
                \/ /\ tms[j].left = tms[i].left
                   /\ (tms[j].delay # tms[i].delay \/ j > i)

TimerFire(i) ==
  LET t == timers[i]
      rest == SelectSeq(timers, LAMBDA u : u.id # t.id)
      r == timerCallback(queue, pendingEntries, rest, eventListeners, t)
  IN /\ running
     /\ FiresNext(timers, i)
     /\ queue' = r.queue
     /\ pendingEntries' = r.pendingEntries
     /\ timers' = r.timers
     /\ status' = AfterListeners([status EXCEPT ![t.key] = Idle],
                                 eventListeners, r)
     /\ admitted' = admitted \o r.pushed
     /\ last' = [NoLast EXCEPT !.op = "timer", !.entry = t.entry,
                   !.found = /\ MapHas(pendingEntries, t.key)
                             /\ MapGet(pendingEntries, t.key).timeout = t.id,
                   !.count = MapIndex(pendingEntries, t.key),
                   !.pushed = r.pushed, !.calls = r.calls,
                   !.sub = status[t.key]]
     /\ UNCHANGED <<enqueueDelayMilliseconds, eventListeners, nextListenerId,
                    running>>

\* One millisecond passes.
Tick ==
  /\ running
  /\ \A i \in 1 .. Len(timers) : timers[i].left > -MaxLate
  /\ timers' = [i \in 1 .. Len(timers) |->
                  [timers[i] EXCEPT !.left = timers[i].left - 1]]
  /\ status' = [k \in Keys |->
                  IF status[k].st = "waiting" /\ status[k].waited < MaxWaited
                    THEN [status[k] EXCEPT !.waited = status[k].waited + 1]
                    ELSE status[k]]
  /\ last' = [NoLast EXCEPT !.op = "tick"]
  /\ UNCHANGED <<enqueueDelayMilliseconds, queue, pendingEntries,
                 eventListeners, nextListenerId, running, admitted>>

\* queue.clearPendingEntry(entry)
ClearPendingEntry(entry) ==
  LET r == clearPendingEntry(pendingEntries, timers, entry)
      k == valueToString(entry)
  IN /\ running
     /\ pendingEntries' = r.pendingEntries
     /\ timers' = r.timers
     /\ status' = [status EXCEPT ![k] = Idle]
     /\ last' = [NoLast EXCEPT !.op = "clearPendingEntry", !.entry = entry,
                   !.found = r.found]
     /\ UNCHANGED <<enqueueDelayMilliseconds, queue, eventListeners,
                    nextListenerId, running, admitted>>

\* queue.enqueuePending()
EnqueuePending ==
  LET r == enqueuePending(queue, pendingEntries, timers, eventListeners)
  IN /\ running
     /\ queue' = r.queue
     /\ pendingEntries' = r.pendingEntries
     /\ timers' = r.timers
     /\ status' = AfterListeners(
                     [k \in Keys |->
                        IF /\ MapHas(pendingEntries, k)
                           /\ ~MapHas(r.pendingEntries, k)
                          THEN Idle ELSE status[k]],
                     eventListeners, r)
     /\ admitted' = admitted \o r.pushed
     /\ last' = [NoLast EXCEPT !.op = "enqueuePending",
                   !.found = r.threw, !.count = Len(pendingEntries),
                   !.pushed = r.pushed, !.calls = r.calls]
     /\ UNCHANGED <<enqueueDelayMilliseconds, eventListeners, nextListenerId,
                    running>>

\* queue.dequeue()
Dequeue ==
  LET r == dequeue(queue)
  IN /\ running
     /\ queue' = r.queue
     /\ admitted' = IF queue = <<>> THEN admitted
                    ELSE RemoveFirst(admitted, r.value)
     /\ last' = [NoLast EXCEPT !.op = "dequeue", !.entry = r.value,
                   !.found = (queue # <<>>)]
     /\ UNCHANGED <<enqueueDelayMilliseconds, pendingEntries, eventListeners,
                    nextListenerId, timers, running, status>>

\* queue.clear()
Clear ==
  LET r == clear(queue)
  IN /\ running
     /\ queue' = r.queue
     /\ admitted' = <<>>
     /\ last' = [NoLast EXCEPT !.op = "clear", !.count = r.clearedCount]
     /\ UNCHANGED <<enqueueDelayMilliseconds, pendingEntries, eventListeners,
                    nextListenerId, timers, running, status>>

\* queue.clearPending()
ClearPending ==
  LET r == clearPending(pendingEntries, timers)
  IN /\ running
     /\ pendingEntries' = r.pendingEntries
     /\ timers' = r.timers
     /\ status' = [k \in Keys |->
                     IF status[k].st = "waiting" THEN Idle ELSE status[k]]
     /\ last' = [NoLast EXCEPT !.op = "clearPending", !.count = r.pendingCount]
     /\ UNCHANGED <<enqueueDelayMilliseconds, queue, eventListeners,
                    nextListenerId, running, admitted>>

\* queue.clearAll()
ClearAll ==
  LET r == clearAll(queue, pendingEntries, timers)
  IN /\ running
     /\ queue' = r.queue
     /\ pendingEntries' = r.pendingEntries
     /\ timers' = r.timers
     /\ status' = [k \in Keys |->
                     IF status[k].st = "waiting" THEN Idle ELSE status[k]]
     /\ admitted' = <<>>
     /\ last' = [NoLast EXCEPT !.op = "clearAll", !.count = r.count,
                   !.found = (last.op = "clearAll")]
     /\ UNCHANGED <<enqueueDelayMilliseconds, eventListeners, nextListenerId,
                    running>>

\* queue.addEventListener('enqueue', listener)
AddEventListener(listener) ==
  LET listenerId == generateUniqueListenerId(nextListenerId)
  IN /\ running
     /\ nextListenerId < MaxListeners
     /\ nextListenerId' = listenerId
     /\ eventListeners' = addEventListener(eventListeners, listenerId, listener)
     /\ last' = [NoLast EXCEPT !.op = "addEventListener", !.count = listenerId]
     /\ UNCHANGED <<enqueueDelayMilliseconds, queue, pendingEntries, timers,
                    running, status, admitted>>

\* queue.removeEventListener('enqueue', listenerId)
RemoveEventListener(listenerId) ==
  /\ running
  /\ eventListeners' = removeEventListener(eventListeners, listenerId)
  /\ last' = [NoLast EXCEPT !.op = "removeEventListener", !.count = listenerId,
                !.found = \E i \in 1 .. Len(eventListeners) :
                             eventListeners[i].id = listenerId]
  /\ UNCHANGED <<enqueueDelayMilliseconds, queue, pendingEntries,
                 nextListenerId, timers, running, status, admitted>>

\* The process exits: the hook registered by the constructor runs.
Exit ==
  LET r == clearPending(pendingEntries, timers)
  IN /\ running
     /\ running' = FALSE
     /\ pendingEntries' = r.pendingEntries
     /\ timers' = r.timers
     /\ status' = [k \in Keys |->
                     IF status[k].st = "waiting" THEN Idle ELSE status[k]]
     /\ last' = [NoLast EXCEPT !.op = "exit", !.count = r.pendingCount]
     /\ UNCHANGED <<enqueueDelayMilliseconds, queue, eventListeners,
                    nextListenerId, admitted>>

\* new UniqueTimedEntryQueue(arg), or new UniqueTimedEntryQueue() when the
\* argument is omitted, for one of the arguments args; the history keeps
\* the argument.
New(args) ==
  \E arg \in args :
    /\ enqueueDelayMilliseconds = Constructor(DefaultParameter(arg))
    /\ queue = <<>>
    /\ pendingEntries = <<>>
    /\ eventListeners = <<>>
    /\ nextListenerId = 0
    /\ timers = <<>>
    /\ running = TRUE
    /\ status = [k \in Keys |-> Idle]
    /\ admitted = <<>>
    /\ last = [NoLast EXCEPT !.found = arg.given, !.count = arg.ms]

\* What a query leaves alone: it assigns to no field and calls no host
\* function.
QueryFrame ==
  UNCHANGED <<enqueueDelayMilliseconds, queue, pendingEntries, eventListeners,
              nextListenerId, timers, running, status, admitted>>

\* queue.enqueueDelay()
EnqueueDelay ==
  /\ running
  /\ last' = [NoLast EXCEPT !.op = "enqueueDelay", !.count = enqueueDelay]
  /\ QueryFrame

\* queue.hasPending()
HasPending ==
  /\ running
  /\ last' = [NoLast EXCEPT !.op = "hasPending", !.found = hasPending]
  /\ QueryFrame

\* queue.hasPendingEntry(entry)
HasPendingEntry(entry) ==
  /\ running
  /\ last' = [NoLast EXCEPT !.op = "hasPendingEntry", !.entry = entry,
                !.found = hasPendingEntry(entry)]
  /\ QueryFrame

\* queue.isEmpty()
IsEmpty ==
  /\ running
  /\ last' = [NoLast EXCEPT !.op = "isEmpty", !.found = isEmpty]
  /\ QueryFrame

\* queue.pendingSize()
PendingSize ==
  /\ running
  /\ last' = [NoLast EXCEPT !.op = "pendingSize", !.count = pendingSize]
  /\ QueryFrame

\* queue.pendingToArray()
PendingToArray ==
  /\ running
  /\ last' = [NoLast EXCEPT !.op = "pendingToArray", !.each = pendingToArray]
  /\ QueryFrame

\* queue.size()
Size ==
  /\ running
  /\ last' = [NoLast EXCEPT !.op = "size", !.count = size]
  /\ QueryFrame

\* queue.toArray()
ToArray ==
  /\ running
  /\ last' = [NoLast EXCEPT !.op = "toArray", !.each = toArray]
  /\ QueryFrame

\* The caller pushes value onto the array toArray() or pendingToArray() has
\* just returned: the queue's own array grows with it if it is the same
\* array.
PushOntoReturned(value) ==
  /\ running
  /\ last.op \in {"toArray", "pendingToArray"}
  /\ queue' = IF last.each.shared THEN Append(queue, value) ELSE queue
  /\ last' = [NoLast EXCEPT !.op = "push", !.entry = value,
                !.found = (last.op = "toArray"),
                !.each = Array(Append(last.each.items, value),
                               last.each.shared)]
  /\ UNCHANGED <<enqueueDelayMilliseconds, pendingEntries, eventListeners,
                 nextListenerId, timers, running, status, admitted>>

\* The queue and its timers, with no listener registered.
Next ==
  \/ \E entry \in Entries, d \in DelayArgs : Enqueue(entry, d)
  \/ \E i \in 1 .. Len(timers) : TimerFire(i)
  \/ Tick
  \/ \E entry \in Entries : ClearPendingEntry(entry)
  \/ EnqueuePending
  \/ Dequeue
  \/ Clear
  \/ ClearPending
  \/ ClearAll
  \/ Exit

Spec == Init /\ [][Next]_vars

\* The queue with listeners: every operation, on two entries with distinct
\* keys, enqueued at once or one millisecond later.
ListenerEntries == {NumberValue(1), StringValue("a")}
ListenerDelays == {Given(0), Given(1)}

NextListeners ==
  \/ \E entry \in ListenerEntries, d \in ListenerDelays : Enqueue(entry, d)
  \/ \E i \in 1 .. Len(timers) : TimerFire(i)
  \/ Tick
  \/ \E entry \in ListenerEntries : ClearPendingEntry(entry)
  \/ EnqueuePending
  \/ Dequeue
  \/ Clear
  \/ ClearPending
  \/ ClearAll
  \/ \E listener \in ListenerKinds : AddEventListener(listener)
  \/ \E listenerId \in 1 .. MaxListeners : RemoveEventListener(listenerId)
  \/ Exit

SpecListeners == Init /\ [][NextListeners]_vars

\* The queue fed by enqueueAll: lists of at most MaxList entries, among them
\* an entry whose key cannot be computed.
BatchEntries == {NumberValue(1), StringValue("a"), CircularObject}
EntryLists == UNION {[1 .. n -> BatchEntries] : n \in 0 .. MaxList}
BatchDelays == {Omitted, Given(0)}

NextBatch ==
  \/ \E entries \in EntryLists, d \in BatchDelays : EnqueueAll(entries, d)
  \/ \E i \in 1 .. Len(timers) : TimerFire(i)
  \/ Tick
  \/ Exit

SpecBatch == Init /\ [][NextBatch]_vars

\* Queues constructed with a default delay of zero or of one millisecond;
\* the delay given to enqueue is negative, shorter than, equal to or longer
\* than it.
InitDefaults == Construct({0, 1})
DefaultsDelays == DelayArgs \cup {Given(-1), Given(MaxDelay)}

NextDefaults ==
  \/ \E entry \in ListenerEntries, d \in DefaultsDelays : Enqueue(entry, d)
  \/ \E i \in 1 .. Len(timers) : TimerFire(i)
  \/ Tick
  \/ \E entry \in ListenerEntries : ClearPendingEntry(entry)
  \/ EnqueuePending
  \/ Dequeue
  \/ Clear
  \/ ClearPending
  \/ ClearAll
  \/ Exit

SpecDefaults == InitDefaults /\ [][NextDefaults]_vars

\* The queue flushed under listeners: entries are enqueued, expire or are
\* flushed, while listeners that return or throw are registered.
NextFlush ==
  \/ \E entry \in ListenerEntries, d \in ListenerDelays : Enqueue(entry, d)
  \/ \E i \in 1 .. Len(timers) : TimerFire(i)
  \/ Tick
  \/ EnqueuePending
  \/ \E listener \in ListenerKinds : AddEventListener(listener)
  \/ Exit

SpecFlush == Init /\ [][NextFlush]_vars

\* The queue under its queries: constructed without an argument or with a
\* negative, zero or positive one; entries are enqueued with a delay of
\* their own, expire, are flushed or dequeued, and the queries are asked in
\* between.
ConstructorArgs == {Omitted, Given(-1), Given(0), Given(1)}
InitQueries == New(ConstructorArgs)

NextQueries ==
  \/ \E entry \in ListenerEntries, d \in ListenerDelays : Enqueue(entry, d)
  \/ \E i \in 1 .. Len(timers) : TimerFire(i)
  \/ Tick
  \/ \E entry \in ListenerEntries : ClearPendingEntry(entry)
  \/ Dequeue
  \/ EnqueueDelay
  \/ HasPending
  \/ \E entry \in Entries : HasPendingEntry(entry)
  \/ IsEmpty
  \/ PendingSize
  \/ PendingToArray
  \/ Size
  \/ ToArray
  \/ \E value \in ListenerEntries : PushOntoReturned(value)
  \/ Exit

SpecQueries == InitQueries /\ [][NextQueries]_vars

\* The queue and its listener registry: listeners that return or throw are
\* registered and removed, by ids issued, removed already or never issued,
\* while entries are admitted at once or flushed.
NextRegistry ==
  \/ \E entry \in ListenerEntries, d \in ListenerDelays : Enqueue(entry, d)
  \/ EnqueuePending
  \/ Dequeue
  \/ \E listener \in ListenerKinds : AddEventListener(listener)
  \/ \E listenerId \in 1 .. MaxListeners : RemoveEventListener(listenerId)
  \/ Exit

SpecRegistry == Init /\ [][NextRegistry]_vars

\* The queue under the operations that are not to touch a pending record of
\* another key: entries are enqueued and cancelled, the queue is dequeued
\* and cleared, listeners that return are registered and removed, and the
\* pending entries are asked for, while the timers run.
NextFrame ==
  \/ \E entry \in ListenerEntries, d \in ListenerDelays : Enqueue(entry, d)
  \/ \E i \in 1 .. Len(timers) : TimerFire(i)
  \/ Tick
  \/ \E entry \in ListenerEntries : ClearPendingEntry(entry)
  \/ Dequeue
  \/ Clear
  \/ AddEventListener("returns")
  \/ \E listenerId \in 1 .. MaxListeners : RemoveEventListener(listenerId)
  \/ PendingToArray
  \/ Exit

SpecFrame == Init /\ [][NextFrame]_vars

\* The queue under the host's event loop: time passes as long as no timer
\* is overdue, and a timer that is due fires unless it is cancelled first.
NextLive ==
  \/ \E entry \in ListenerEntries, d \in ListenerDelays : Enqueue(entry, d)
  \/ \E i \in 1 .. Len(timers) : TimerFire(i)
  \/ Tick
  \/ \E entry \in ListenerEntries : ClearPendingEntry(entry)
  \/ Dequeue
  \/ ClearAll
  \/ Exit

SpecLive ==
  /\ Init
  /\ [][NextLive]_vars
  /\ WF_vars(Tick)
  /\ WF_vars(\E i \in 1 .. Len(timers) : TimerFire(i))

\* The queue under listeners that call back into it: listeners that return
\* or enqueue an entry of their own are registered, while entries are
\* enqueued, expire, are flushed and dequeued.
ReentrantKinds == {"returns", "enqueues"}

NextReentrant ==
  \/ \E entry \in ListenerEntries, d \in ListenerDelays : Enqueue(entry, d)
  \/ \E i \in 1 .. Len(timers) : TimerFire(i)
  \/ Tick
  \/ EnqueuePending
  \/ Dequeue
  \/ \E listener \in ReentrantKinds : AddEventListener(listener)
  \/ Exit

SpecReentrant == Init /\ [][NextReentrant]_vars

\* The queue fed with entries of several types, of pairwise distinct keys,
\* with one delay or another, and dequeued.
TypedDelays == {Given(1)}

NextTyped ==
  \/ \E entry \in TypedEntries, d \in TypedDelays : Enqueue(entry, d)
  \/ \E i \in 1 .. Len(timers) : TimerFire(i)
  \/ Tick
  \/ Dequeue
  \/ Exit

SpecTyped == Init /\ [][NextTyped]_vars

\* ------------------------------------------------------------ the claims
Count(q, e) == Cardinality({i \in 1 .. Len(q) : q[i] = e})
RecordsOf(pend, k) == {i \in 1 .. Len(pend) : pend[i].key = k}
TimersOf(tms, k) == {i \in 1 .. Len(tms) : tms[i].key = k}

\* C1: enqueue(e) with a positive delay while e's key is pending leaves
\* exactly one pending record and one armed timer for that key, holding e
\* (pendingSize() and size() as before, hasPendingEntry(e) true); and when a
\* timer fires, its entry is in the queue exactly once, and no record and no
\* timer of its key is left that could add it a second time.
C1_UniqueUnderResubmission ==
  [][/\ (last'.op = "enqueue" /\ last'.count > 0 /\ last'.found) =>
          LET k == valueToString(last'.entry)
          IN /\ Len(pendingEntries') = Len(pendingEntries)
             /\ Cardinality(RecordsOf(pendingEntries', k)) = 1
             /\ MapGet(pendingEntries', k).value = last'.entry
             /\ Cardinality(TimersOf(timers', k)) = 1
             /\ \A i \in TimersOf(timers', k) :
                  timers'[i].id = MapGet(pendingEntries', k).timeout
             /\ queue' = queue
     /\ last'.op = "timer" =>
          LET k == valueToString(last'.entry)
          IN /\ Count(queue', last'.entry) = 1
             /\ Len(queue') <= Len(queue) + 1
             /\ RecordsOf(pendingEntries', k) = {}
             /\ TimersOf(timers', k) = {}]_vars

\* C1 witness: the timer of an entry that was enqueued twice has fired and
\* the entry is in the queue once.
C1_Witness ==
  /\ last.op = "timer"
  /\ last.sub.reset
  /\ last.pushed = <<last.entry>>
  /\ Count(queue, last.entry) = 1

\* C2: the timer armed for a key is that of the key's last submission: it has
\* that submission's delay and becomes due exactly when the delay has passed
\* since it, whatever was submitted before or for other keys; so a timer that
\* fires belongs to a waiting submission whose whole delay has elapsed.
C2_DelayReset ==
  /\ \A k \in Keys :
       status[k].st = "waiting" =>
         /\ Cardinality(TimersOf(timers, k)) = 1
         /\ \A i \in TimersOf(timers, k) :
              /\ timers[i].delay = status[k].delay
              /\ timers[i].left = status[k].delay - status[k].waited
  /\ last.op = "timer" =>
       /\ last.sub.st = "waiting"
       /\ last.sub.waited >= last.sub.delay

\* C2 witness: an entry has been admitted by its timer while another key,
\* resubmitted later, is still pending with time left.
C2_Witness ==
  /\ last.op = "timer"
  /\ last.pushed = <<last.entry>>
  /\ \E k \in Keys :
       /\ status[k].st = "waiting" /\ status[k].reset
       /\ status[k].waited > 0
       /\ status[k].waited < status[k].delay

\* C3: the queue holds its entries in the order in which they were admitted,
\* and dequeue returns the earliest admitted one.
C3_FifoByAdmission ==
  [][/\ queue' = admitted'
     /\ (last'.op = "dequeue" /\ last'.found) => last'.entry = Head(admitted)]_vars

\* C3 witness: a timer has admitted an entry that was submitted after
\* another entry which is still pending.
C3_Witness ==
  /\ last.op = "timer"
  /\ last.count = 2
  /\ last.pushed = <<last.entry>>
  /\ pendingEntries # <<>>

\* C4 (as amended): enqueue(e, d) with an effective delay of zero or less
\* leaves no pending record and no timer for e's key, every other record as it
\* was (pendingSize() unchanged if the key was not pending, one less if it
\* was), and appends e to the queue (size() one more) unless e is already in
\* the queue, which then stays as it is.
C4_ZeroDelayBypass ==
  [][(last'.op = "enqueue" /\ last'.count <= 0) =>
       LET e == last'.entry
           k == valueToString(e)
       IN /\ pendingEntries' = MapDelete(pendingEntries, k)
          /\ Len(pendingEntries') =
               Len(pendingEntries) - (IF MapHas(pendingEntries, k) THEN 1 ELSE 0)
          /\ TimersOf(timers', k) = {}
          /\ Len(timers') = Len(pendingEntries')
          /\ queue' = IF Includes(queue, e) THEN queue ELSE Append(queue, e)]_vars

\* C4 witness: a zero-delay enqueue of an entry that was pending has put it
\* in the queue and removed its pending record.
C4_Witness ==
  /\ last.op = "enqueue"
  /\ last.count <= 0
  /\ last.found
  /\ last.pushed = <<last.entry>>
  /\ ~hasPendingEntry(last.entry)

\* C4 as claimed: after enqueue(e, 0), pendingSize() is unchanged and size()
\* is one more.
C4_Original ==
  [][(last'.op = "enqueue" /\ last'.count <= 0) =>
       /\ Len(pendingEntries') = Len(pendingEntries)
       /\ Len(queue') = Len(queue) + 1]_vars

\* A key is quiet when it has no pending record and no armed timer.
Quiet(pend, tms, k) == RecordsOf(pend, k) = {} /\ TimersOf(tms, k) = {}

\* C5: clearPendingEntry(e) on a pending key returns true, removes one
\* pending record, leaves the key without record and without armed timer; and
\* a key without record and timer stays so, and no entry of that key is
\* added to the queue, until an entry of that key is enqueued again.
C5_Cancellation ==
  [][/\ (last'.op = "clearPendingEntry" /\ hasPendingEntry(last'.entry)) =>
          /\ last'.found
          /\ Len(pendingEntries') = Len(pendingEntries) - 1
          /\ Quiet(pendingEntries', timers', valueToString(last'.entry))
     /\ \A k \in Keys :
          (/\ Quiet(pendingEntries, timers, k)
           /\ ~(last'.op = "enqueue" /\ valueToString(last'.entry) = k)) =>
             /\ Quiet(pendingEntries', timers', k)
             /\ \A i \in 1 .. Len(last'.pushed) :
                  valueToString(last'.pushed[i]) # k]_vars

\* C5 witness: a pending entry has been cancelled and is not in the queue.
C5_Witness ==
  /\ last.op = "clearPendingEntry"
  /\ last.found
  /\ ~Includes(queue, last.entry)
  /\ ~hasPendingEntry(last.entry)

\* C6: clearPendingEntry never changes the queue, and for a key that is not
\* pending it returns false and changes neither the pending map nor a timer.
C6_CancelNotFound ==
  [][last'.op = "clearPendingEntry" =>
       /\ queue' = queue
       /\ ~hasPendingEntry(last'.entry) =>
            /\ ~last'.found
            /\ pendingEntries' = pendingEntries
            /\ timers' = timers]_vars

\* C6 witness: clearPendingEntry has returned false while another key was
\* pending and the queue was not empty.
C6_Witness ==
  /\ last.op = "clearPendingEntry"
  /\ ~last.found
  /\ pendingEntries # <<>>
  /\ queue # <<>>

\* C7: the queue never holds the same entry twice.
C7_QueueUnique ==
  \A i, j \in 1 .. Len(queue) : i # j => queue[i] # queue[j]

\* C7 witness: a timer has fired for an entry that was already in the queue,
\* and nothing was added.
C7_Witness ==
  /\ last.op = "timer"
  /\ last.pushed = <<>>
  /\ Count(queue, last.entry) = 1

\* C8 as claimed: enqueue(e), with any delay, while e is in the queue leaves
\* the queue unchanged and creates no pending record for e.
C8_Original ==
  [][(last'.op = "enqueue" /\ Includes(queue, last'.entry)) =>
       /\ queue' = queue
       /\ ~MapHas(pendingEntries', valueToString(last'.entry))]_vars

\* The invocations of listener id with entry e among calls.
Invocations(calls, id, e) ==
  Cardinality({i \in 1 .. Len(calls) : calls[i].id = id /\ calls[i].entry = e})
Registered(listeners, id) ==
  \E i \in 1 .. Len(listeners) : listeners[i].id = id

\* C9 as claimed: a step invokes every registered listener exactly once with
\* each entry it appends to the queue, and invokes no listener otherwise.
C9_Original ==
  /\ \A i \in 1 .. Len(last.pushed), j \in 1 .. Len(eventListeners) :
       Invocations(last.calls, eventListeners[j].id, last.pushed[i]) = 1
  /\ \A c \in 1 .. Len(last.calls) :
       /\ Includes(last.pushed, last.calls[c].entry)
       /\ Registered(eventListeners, last.calls[c].id)

\* C10 as claimed: removeEventListener removes the listener of that id and no
\* other; and once a listener has been removed, a step invokes no listener
\* that is not registered and invokes every registered listener once with
\* every entry it appends.
C10_Original ==
  [][/\ last'.op = "removeEventListener" =>
          eventListeners' =
            SelectSeq(eventListeners, LAMBDA l : l.id # last'.count)
     /\ (\E id \in 1 .. nextListenerId' : ~Registered(eventListeners', id)) =>
          /\ \A c \in 1 .. Len(last'.calls) :
               Registered(eventListeners', last'.calls[c].id)
          /\ \A i \in 1 .. Len(last'.pushed), j \in 1 .. Len(eventListeners') :
               Invocations(last'.calls, eventListeners'[j].id,
                           last'.pushed[i]) = 1]_vars

\* C11: dequeue() on a non-empty queue returns the entry at the front and
\* leaves the rest of the queue in its order (size() one less); on an empty
\* queue it returns undefined and leaves the queue empty; in both cases the
\* pending map and the armed timers are as before.
C11_Dequeue ==
  [][last'.op = "dequeue" =>
       /\ pendingEntries' = pendingEntries
       /\ timers' = timers
       /\ IF queue # <<>>
            THEN /\ last'.entry = queue[1]
                 /\ Len(queue') = Len(queue) - 1
                 /\ \A i \in 1 .. Len(queue') : queue'[i] = queue[i + 1]
            ELSE /\ last'.entry = Undefined
                 /\ queue' = <<>>]_vars

\* C11 witness: dequeue has returned the front of a queue of several entries
\* while an entry was pending.
C11_Witness ==
  /\ last.op = "dequeue"
  /\ last.found
  /\ last.entry # Undefined
  /\ queue # <<>>
  /\ pendingEntries # <<>>
  /\ timers # <<>>

\* C15: clear() leaves the queue empty and returns the number of entries it
\* held; the pending map and every armed timer, with the time it has left,
\* are as before; and a timer that fires while its entry is not in the queue
\* appends it, so that what was pending at clear() is admitted at expiry.
C15_ClearQueueOnly ==
  [][/\ last'.op = "clear" =>
          /\ queue' = <<>>
          /\ last'.count = Len(queue)
          /\ pendingEntries' = pendingEntries
          /\ timers' = timers
     /\ (last'.op = "timer" /\ ~Includes(queue, last'.entry)) =>
          queue' = Append(queue, last'.entry)]_vars

\* C15 witness: clear() has emptied a non-empty queue while an entry was
\* pending, and its record and timer are still there.
C15_Witness ==
  /\ last.op = "clear"
  /\ last.count > 0
  /\ queue = <<>>
  /\ pendingEntries # <<>>
  /\ \A i \in 1 .. Len(pendingEntries) :
       \E j \in 1 .. Len(timers) : timers[j].id = pendingEntries[i].timeout

\* C16: clearPending() leaves the pending map empty, returns the number of
\* records it held, leaves none of the timers of those records armed, and
\* leaves the queue as it was.
C16_ClearPending ==
  [][last'.op = "clearPending" =>
       /\ pendingEntries' = <<>>
       /\ last'.count = Len(pendingEntries)
       /\ \A i \in 1 .. Len(pendingEntries) :
            pendingEntries[i].timeout \notin TimerIds(timers')
       /\ timers' = <<>>
       /\ queue' = queue]_vars

\* C16 witness: clearPending() has removed several pending records while the
\* queue was not empty.
C16_Witness ==
  /\ last.op = "clearPending"
  /\ last.count > 1
  /\ queue # <<>>
  /\ pendingEntries = <<>>

\* C17: clearAll() leaves the state that clearPending() followed by clear()
\* leaves (empty queue, empty pending map, no armed timer) and returns the
\* sum of their two counts, pendingSize() + size() as they were.
C17_ClearAllIsBoth ==
  [][last'.op = "clearAll" =>
       LET p == clearPending(pendingEntries, timers)
           c == clear(queue)
       IN /\ queue' = c.queue
          /\ pendingEntries' = p.pendingEntries
          /\ timers' = p.timers
          /\ last'.count = p.pendingCount + c.clearedCount
          /\ last'.count = Len(pendingEntries) + Len(queue)
          /\ queue' = <<>> /\ pendingEntries' = <<>> /\ timers' = <<>>]_vars

\* C17 witness: clearAll() has removed pending records and queue entries.
C17_Witness ==
  /\ last.op = "clearAll"
  /\ last.count > 2
  /\ queue = <<>>
  /\ pendingEntries = <<>>
  /\ timers = <<>>

\* C18: after clearAll() the queue and the pending map are empty, and a
\* clearAll() that follows a clearAll() at once changes nothing and returns 0.
C18_ClearAllIdempotent ==
  [][last'.op = "clearAll" =>
       /\ Len(queue') = 0
       /\ Len(pendingEntries') = 0
       /\ last.op = "clearAll" =>
            /\ queue' = queue
            /\ pendingEntries' = pendingEntries
            /\ timers' = timers
            /\ last'.count = 0]_vars

\* C18 witness: a second clearAll() has returned 0.
C18_Witness ==
  /\ last.op = "clearAll"
  /\ last.found
  /\ last.count = 0
  /\ queue = <<>>
  /\ pendingEntries = <<>>

\* C12: when enqueuePending() returns, the pending map is empty, no timer is
\* armed any more, and the queue is the queue as it was followed by the
\* pending values that were not in it, in the order of the pending map; so
\* every pending value is in the queue, and n pending values none of which
\* was in the queue make it n longer.
C12_EnqueuePending ==
  [][(last'.op = "enqueuePending" /\ ~last'.found) =>
       LET values == [i \in 1 .. Len(pendingEntries) |-> pendingEntries[i].value]
           fresh == SelectSeq(values, LAMBDA v : ~Includes(queue, v))
       IN /\ pendingEntries' = <<>>
          /\ timers' = <<>>
          /\ queue' = queue \o fresh
          /\ \A i \in 1 .. Len(values) : Includes(queue', values[i])
          /\ (\A i \in 1 .. Len(values) : ~Includes(queue, values[i])) =>
               Len(queue') = Len(queue) + Len(values)]_vars

\* C12 witness: enqueuePending() has returned after it moved two pending
\* entries to the queue and notified a listener.
C12_Witness ==
  /\ last.op = "enqueuePending"
  /\ ~last.found
  /\ last.count = 2
  /\ Len(last.pushed) = 2
  /\ last.calls # <<>>
  /\ pendingEntries = <<>>
  /\ timers = <<>>

\* C13: enqueueAll(entries, d) leaves the queue, the pending map and the
\* timers as the calls enqueue(entries[1], d); enqueue(entries[2], d); ...
\* leave them, with at most one pending record for a key.
C13_EnqueueAllIsEach ==
  last.op = "enqueueAll" =>
    /\ Left([queue |-> queue, pendingEntries |-> pendingEntries,
             timers |-> timers]) = last.each
    /\ \A i, j \in 1 .. Len(pendingEntries) :
         pendingEntries[i].key = pendingEntries[j].key => i = j
    /\ Len(timers) = Len(pendingEntries)

\* C13 witness: enqueueAll of a list that holds one entry twice, with a
\* positive delay, has left one pending record and an empty queue.
C13_Witness ==
  /\ last.op = "enqueueAll"
  /\ ~last.found
  /\ last.count = 2
  /\ last.called = 2
  /\ queue = <<>>
  /\ Len(pendingEntries) = 1
  /\ \A i \in 1 .. Len(timers) : timers[i].left = timers[i].delay

\* C14 as claimed: enqueueAll calls enqueue for every entry of its list,
\* also for those that follow an entry whose enqueue has thrown.
C14_Original ==
  last.op = "enqueueAll" => last.called = last.count

C20_DelayOverride ==
  [][/\ \A entry \in ListenerEntries, d \in DefaultsDelays :
          Enqueue(entry, d) =>
            LET delay == IF d.given THEN d.ms ELSE enqueueDelayMilliseconds
                k == valueToString(entry)
            IN IF delay > 0
                 THEN /\ queue' = queue
                      /\ Cardinality(TimersOf(timers', k)) = 1
                      /\ \A i \in TimersOf(timers', k) :
                           /\ timers'[i].delay = delay
                           /\ timers'[i].left = delay
                      /\ status'[k].st = "waiting"
                      /\ status'[k].delay = delay
                      /\ status'[k].waited = 0
                 ELSE /\ Quiet(pendingEntries', timers', k)
                      /\ Includes(queue', entry)
     /\ last'.op = "timer" =>
          /\ last'.sub.st = "waiting"
          /\ last'.sub.waited >= last'.sub.delay
          /\ \A i \in 1 .. Len(timers) :
               timers[i].left = status[timers[i].key].delay
                                  - status[timers[i].key].waited]_vars

\* C20 witness: an entry enqueued with a delay longer than the positive
\* default is still pending when the default delay has passed.
C20_Witness ==
  /\ enqueueDelayMilliseconds > 0
  /\ \E i \in 1 .. Len(pendingEntries) :
       LET k == pendingEntries[i].key
       IN /\ status[k].st = "waiting"
          /\ status[k].delay > enqueueDelayMilliseconds
          /\ status[k].waited >= enqueueDelayMilliseconds
          /\ ~Includes(queue, pendingEntries[i].value)

\* C21: the stored default delay is never negative and never changes: after
\* new UniqueTimedEntryQueue(d), enqueueDelay() returns 0 for d < 0 and d for
\* d >= 0, and every later enqueueDelay() returns the stored delay.
C21_DefaultNeverNegative ==
  /\ [](/\ enqueueDelay >= 0
        /\ last.op = "new" /\ last.found =>
             /\ last.count < 0 => enqueueDelay = 0
             /\ last.count >= 0 => enqueueDelay = last.count
        /\ last.op = "enqueueDelay" =>
             last.count = enqueueDelayMilliseconds /\ last.count >= 0)
  /\ [][enqueueDelayMilliseconds' = enqueueDelayMilliseconds]_vars

\* C21 witness: a queue constructed with a negative delay stores zero.
C21_Witness ==
  /\ last.op = "new"
  /\ last.found
  /\ last.count < 0
  /\ enqueueDelay = 0

\* C22: a freshly constructed queue is empty: isEmpty() is true, size() is 0,
\* hasPending() is false, pendingSize() is 0, no timer is armed, no listener
\* is registered, and enqueueDelay() returns the delay it was constructed
\* with (zero for a negative one), 60000 when none was given.
C22_FreshQueue ==
  last.op = "new" =>
    /\ isEmpty
    /\ size = 0
    /\ ~hasPending
    /\ pendingSize = 0
    /\ timers = <<>>
    /\ eventListeners = <<>>
    /\ toArray.items = <<>>
    /\ pendingToArray.items = <<>>
    /\ enqueueDelay = IF ~last.found THEN 60000
                      ELSE IF last.count < 0 THEN 0 ELSE last.count

\* C22 witness: a queue constructed without an argument, before any operation.
C22_Witness ==
  /\ last.op = "new"
  /\ ~last.found
  /\ enqueueDelay = 60000
  /\ isEmpty
  /\ ~hasPending

\* C23: the hook run at process exit calls clearPending(): it leaves no timer
\* armed and the pending map empty, cancels as many timers as there were
\* pending records, and leaves the queue of admitted entries and the
\* listeners as they were; nothing is armed afterwards.
C23_ExitHook ==
  /\ [](~running => timers = <<>> /\ pendingEntries = <<>>)
  /\ [][last'.op = "exit" =>
          /\ timers' = <<>>
          /\ pendingEntries' = <<>>
          /\ last'.count = Len(pendingEntries)
          /\ queue' = queue
          /\ eventListeners' = eventListeners
          /\ ~running']_vars

\* C23 witness: the process has exited while entries were pending and others
\* were in the queue.
C23_Witness ==
  /\ ~running
  /\ last.op = "exit"
  /\ last.count > 0
  /\ queue # <<>>
  /\ timers = <<>>

\* C24: removeEventListener('enqueue', id) with an id that is not registered,
\* because it was never issued or because its listener has been removed
\* already, changes nothing: the registry, the pending map, the timers and
\* the queue are as before.
C24_RemoveUnknown ==
  [][/\ last'.op = "removeEventListener"
     /\ ~Registered(eventListeners, last'.count)
     => /\ eventListeners' = eventListeners
        /\ pendingEntries' = pendingEntries
        /\ timers' = timers
        /\ queue' = queue
        /\ nextListenerId' = nextListenerId
        /\ ~last'.found]_vars

\* C24 witness: a listener that was removed before has been removed again,
\* while other listeners are registered, an entry is pending and one is in
\* the queue.
C24_Witness ==
  /\ last.op = "removeEventListener"
  /\ ~last.found
  /\ last.count <= nextListenerId
  /\ eventListeners # <<>>
  /\ pendingEntries # <<>>
  /\ queue # <<>>

\* What successive dequeue() calls return until the queue is empty.
RECURSIVE Dequeued(_)
Dequeued(q) ==
  IF q = <<>> THEN <<>>
  ELSE <<dequeue(q).value>> \o Dequeued(dequeue(q).queue)

\* C25: toArray() returns the entries of the queue in admission order, the
\* sequence successive dequeue() calls would return, in an array of its own:
\* the call changes nothing, and a push onto the returned array leaves the
\* queue as it was.
C25_ToArray ==
  [][/\ last'.op = "toArray" =>
          /\ last'.each.items = Dequeued(queue)
          /\ last'.each.items = admitted
          /\ ~last'.each.shared
          /\ queue' = queue
     /\ last'.op = "push" /\ last'.found =>
          /\ last'.each.items = Append(queue, last'.entry)
          /\ queue' = queue
          /\ toArray'.items = queue]_vars

\* C25 witness: the caller has pushed an entry onto the array toArray()
\* returned for a queue of two entries; the queue still has its two entries.
C25_Witness ==
  /\ last.op = "push"
  /\ last.found
  /\ Len(last.each.items) = 3
  /\ Len(queue) = 2
  /\ queue = admitted

\* C26 as claimed: pendingToArray() returns the values of the pending
\* records, one per pending key and as many as pendingSize(), in an array of
\* its own, and none of the entries it returns has been admitted already
\* (is in the queue), cancelled or superseded (each is the value of a
\* submission still waiting).
C26_Original ==
  last.op = "pendingToArray" =>
    /\ Len(last.each.items) = pendingSize
    /\ ~last.each.shared
    /\ \A i \in 1 .. pendingSize :
         /\ last.each.items[i] = pendingEntries[i].value
         /\ valueToString(last.each.items[i]) = pendingEntries[i].key
         /\ Cardinality(RecordsOf(pendingEntries, pendingEntries[i].key)) = 1
         /\ status[pendingEntries[i].key].st = "waiting"
         /\ ~Includes(queue, last.each.items[i])

QueryOps ==
  {"size", "pendingSize", "isEmpty", "hasPending", "hasPendingEntry",
   "toArray", "pendingToArray", "enqueueDelay"}

\* C27: the queries size(), pendingSize(), isEmpty(), hasPending(),
\* hasPendingEntry(e), toArray(), pendingToArray() and enqueueDelay() change
\* neither the queue nor the pending map nor a timer nor the listeners nor
\* the default delay, and their answers agree: isEmpty() iff size() = 0,
\* hasPending() iff pendingSize() > 0, hasPendingEntry(e) iff the key of e
\* is in the pending map, and the snapshots are as long as the sizes.
C27_QueriesPure ==
  [][last'.op \in QueryOps =>
       /\ queue' = queue
       /\ pendingEntries' = pendingEntries
       /\ timers' = timers
       /\ eventListeners' = eventListeners
       /\ enqueueDelayMilliseconds' = enqueueDelayMilliseconds
       /\ running' = running
       /\ last'.op = "size" => last'.count = Len(queue)
       /\ last'.op = "pendingSize" => last'.count = Len(pendingEntries)
       /\ last'.op = "isEmpty" => (last'.found <=> size = 0)
       /\ last'.op = "hasPending" => (last'.found <=> pendingSize > 0)
       /\ last'.op = "hasPendingEntry" =>
            (last'.found <=>
               \E i \in 1 .. Len(pendingEntries) :
                 pendingEntries[i].key = valueToString(last'.entry))
       /\ last'.op = "toArray" => Len(last'.each.items) = size
       /\ last'.op = "pendingToArray" => Len(last'.each.items) = pendingSize
       /\ last'.op = "enqueueDelay" => last'.count = enqueueDelayMilliseconds
       /\ isEmpty' <=> size' = 0
       /\ hasPending' <=> pendingSize' > 0]_vars

\* C27 witness: isEmpty() has answered true while an entry is pending, and
\* hasPendingEntry answers true for another entry of the same key.
C27_Witness ==
  /\ last.op = "isEmpty"
  /\ last.found
  /\ size = 0
  /\ hasPending
  /\ pendingSize = 2
  /\ hasPendingEntry(StringValue("1"))
  /\ \A i \in 1 .. Len(pendingEntries) :
       pendingEntries[i].value # StringValue("1")

\* C28 as claimed: there is no partial failure: enqueuePending(), also when
\* a listener throws, either applies fully (every pending record is gone,
\* its timer cancelled and its entry in the queue) or leaves the queue, the
\* pending map and the timers untouched.
C28_Original ==
  [][last'.op = "enqueuePending" =>
       \/ /\ pendingEntries' = <<>>
          /\ timers' = <<>>
          /\ \A i \in 1 .. Len(pendingEntries) :
               Includes(queue', pendingEntries[i].value)
       \/ /\ queue' = queue
          /\ pendingEntries' = pendingEntries
          /\ timers' = timers]_vars

\* C29: pending records and armed timers correspond one to one in every
\* state: each key has at most one record, the timer of every record is
\* armed and holds the record's key and value, and every armed timer is the
\* timer of the record stored under its key; no timer is armed twice.
C29_RecordsAndTimers ==
  /\ \A i, j \in 1 .. Len(pendingEntries) :
       pendingEntries[i].key = pendingEntries[j].key => i = j
  /\ \A i, j \in 1 .. Len(timers) : timers[i].id = timers[j].id => i = j
  /\ \A i \in 1 .. Len(pendingEntries) :
       \E j \in 1 .. Len(timers) :
         /\ timers[j].id = pendingEntries[i].timeout
         /\ timers[j].key = pendingEntries[i].key
         /\ timers[j].entry = pendingEntries[i].value
  /\ \A j \in 1 .. Len(timers) :
       \E i \in 1 .. Len(pendingEntries) :
         /\ pendingEntries[i].key = timers[j].key
         /\ pendingEntries[i].timeout = timers[j].id
  /\ Len(timers) = Len(pendingEntries)

\* C29 witness: a timer has fired for one key while the record of another
\* key, resubmitted before, is still pending with its one armed timer.
C29_Witness ==
  /\ last.op = "timer"
  /\ Len(pendingEntries) = 1
  /\ Len(timers) = 1
  /\ timers[1].id = pendingEntries[1].timeout
  /\ status[pendingEntries[1].key].reset
  /\ pendingEntries[1].key # valueToString(last.entry)

\* The invocations among calls that were made for entry e, in order.
CallsFor(calls, e) == SelectSeq(calls, LAMBDA c : c.entry = e)

\* C30: for one admission the listeners are invoked in the order of their
\* registration: the invocations made for an admitted entry go through the
\* registered listeners from the one registered first, each before every
\* listener registered after it, up to the last one or to the first one
\* that throws.  Listener ids are issued in increasing order, so the order
\* of the ids is the order of the registrations.
C30_RegistrationOrder ==
  [][\A n \in 1 .. Len(last'.pushed) :
       LET e == last'.pushed[n]
           made == CallsFor(last'.calls, e)
       IN /\ \A i, j \in 1 .. Len(made) : i < j => made[i].id < made[j].id
          /\ Len(made) <= Len(eventListeners)
          /\ \A i \in 1 .. Len(made) : made[i].id = eventListeners[i].id
          /\ \A i \in 1 .. Len(made) - 1 : eventListeners[i].kind = "returns"
          /\ Len(made) < Len(eventListeners) =>
               /\ Len(made) > 0
               /\ eventListeners[Len(made)].kind = "throws"]_vars

\* C30 witness: after the listener registered first was removed and a third
\* one registered, an admission has invoked the second and then the third.
C30_Witness ==
  /\ Len(last.pushed) = 1
  /\ Len(last.calls) = 2
  /\ last.calls[1].id = 2
  /\ last.calls[2].id = 3
  /\ nextListenerId = 3
  /\ ~Registered(eventListeners, 1)

\* The place of entry e among the entries pushed.
PushedAt(pushed, e) == CHOOSE n \in 1 .. Len(pushed) : pushed[n] = e

\* C31: when a listener is called with entry e, whether by enqueue with no
\* delay, by the timer of e or by enqueuePending(), the queue reflects the
\* admission already: size() counts e, toArray() ends with e, and
\* hasPendingEntry(e) is false.
C31_ListenerSeesAdmission ==
  [][\A c \in 1 .. Len(last'.calls) :
       LET call == last'.calls[c]
       IN /\ last'.op \in {"enqueue", "timer", "enqueuePending"}
          /\ Includes(last'.pushed, call.entry)
          /\ call.seen.tail = call.entry
          /\ call.seen.size = Len(queue) + PushedAt(last'.pushed, call.entry)
          /\ ~call.seen.pending
          /\ Includes(queue', call.entry)]_vars

\* C31 witness: a flush has admitted two entries; the listener called with
\* the first one saw it as the last of a queue the second was not yet in.
C31_Witness ==
  /\ last.op = "enqueuePending"
  /\ Len(last.pushed) = 2
  /\ \E c \in 1 .. Len(last.calls) :
       /\ last.calls[c].entry = last.pushed[1]
       /\ last.calls[c].seen.tail = last.pushed[1]
       /\ last.calls[c].seen.size = Len(queue) - 1
       /\ ~last.calls[c].seen.pending

\* C32: enqueue(e, d) with an effective delay of zero or less (d zero or
\* negative, or no d on a queue whose default is zero) arms no timer and
\* leaves no pending record and no timer for the key of e: a record that was
\* pending for the key is gone with its timer, every timer that fires later
\* belongs to a submission made since, and e is in the queue once.
C32_ZeroDelayNoTimer ==
  [][/\ (last'.op = "enqueue" /\ last'.count <= 0) =>
          LET k == valueToString(last'.entry)
          IN /\ \A i \in 1 .. Len(timers') :
                  \E j \in 1 .. Len(timers) : timers[j] = timers'[i]
             /\ Len(timers') =
                  Len(timers) - Cardinality(TimersOf(timers, k))
             /\ Quiet(pendingEntries', timers', k)
             /\ status'[k].st = "idle"
             /\ Count(queue', last'.entry) = 1
     /\ last'.op = "timer" =>
          /\ status[valueToString(last'.entry)].st = "waiting"
          /\ status[valueToString(last'.entry)].value = last'.entry
          /\ status[valueToString(last'.entry)].delay > 0]_vars

\* C32 witness: enqueue with a negative delay has admitted an entry that was
\* pending, on a queue whose default delay is positive.
C32_Witness ==
  /\ last.op = "enqueue"
  /\ last.count < 0
  /\ last.found
  /\ enqueueDelayMilliseconds > 0
  /\ last.pushed = <<last.entry>>
  /\ Quiet(pendingEntries, timers, valueToString(last.entry))

\* C33 as claimed: uniqueness is by key everywhere: the queue never holds two
\* entries with the same key, and the pending map never holds two records
\* with the same key.
C33_Original ==
  /\ \A i, j \in 1 .. Len(queue) :
       valueToString(queue[i]) = valueToString(queue[j]) => i = j
  /\ \A i, j \in 1 .. Len(pendingEntries) :
       pendingEntries[i].key = pendingEntries[j].key => i = j

\* A step leaves every pending record of a key other than k as it was, with
\* its value, its timer and the time left on it, and adds none.
KeepsOtherRecords(k) ==
  /\ \A i \in 1 .. Len(pendingEntries) :
       pendingEntries[i].key # k =>
         /\ \E j \in 1 .. Len(pendingEntries') :
              pendingEntries'[j] = pendingEntries[i]
         /\ \A t \in 1 .. Len(timers) :
              timers[t].id = pendingEntries[i].timeout =>
                \E u \in 1 .. Len(timers') : timers'[u] = timers[t]
         /\ status'[pendingEntries[i].key] = status[pendingEntries[i].key]
  /\ \A j \in 1 .. Len(pendingEntries') :
       pendingEntries'[j].key # k =>
         \E i \in 1 .. Len(pendingEntries) :
           pendingEntries[i] = pendingEntries'[j]

\* C34: only the resubmission of a key resets its delay: enqueue(e) and
\* clearPendingEntry(e) change at most the pending record of the key of e,
\* dequeue(), clear(), the queries and the listener operations change no
\* pending record and no timer, and a timer has more time left after a step
\* only if the step was an enqueue of its key.
C34_OnlyResubmissionResets ==
  [][/\ last'.op \in {"enqueue", "clearPendingEntry"} =>
          KeepsOtherRecords(valueToString(last'.entry))
     /\ last'.op \in {"dequeue", "clear", "pendingToArray", "addEventListener",
                      "removeEventListener"} =>
          /\ pendingEntries' = pendingEntries
          /\ timers' = timers
          /\ status' = status
     /\ \A u \in 1 .. Len(timers') :
          \/ \E t \in 1 .. Len(timers) :
               /\ timers[t].id = timers'[u].id
               /\ timers[t].key = timers'[u].key
               /\ timers[t].entry = timers'[u].entry
               /\ timers[t].left >= timers'[u].left
          \/ /\ last'.op = "enqueue"
             /\ valueToString(last'.entry) = timers'[u].key]_vars

\* C34 witness: an entry has been resubmitted while the entry of another key
\* was pending for a millisecond already: that one has kept its record and
\* the time left on its timer.
C34_Witness ==
  /\ last.op = "enqueue"
  /\ last.found
  /\ Len(pendingEntries) = 2
  /\ \E i \in 1 .. Len(timers) :
       /\ timers[i].key # valueToString(last.entry)
       /\ timers[i].left < timers[i].delay
       /\ status[timers[i].key].waited > 0
  /\ \E i \in 1 .. Len(timers) :
       /\ timers[i].key = valueToString(last.entry)
       /\ timers[i].left = timers[i].delay

\* The key k has just been submitted again while it was pending, with a
\* delay or without.
Resubmitted(k) ==
  /\ last.op = "enqueue"
  /\ valueToString(last.entry) = k
  /\ last.found

\* C35: when timers are delivered, no entry stays pending for ever: a key
\* that is pending is later not pending or is submitted again, and a key
\* that is pending and neither submitted again nor cancelled (by
\* clearPendingEntry, clearAll or the exit of the process) has its timer
\* fire, once, after which its record and its timer are gone and its entry
\* is in the queue.
C35_NoEntryPendingForever ==
  /\ \A k \in Keys :
       MapHas(pendingEntries, k) ~> (~MapHas(pendingEntries, k) \/ Resubmitted(k))
  /\ \A k \in Keys :
       MapHas(pendingEntries, k) ~>
         \/ Resubmitted(k)
         \/ last.op \in {"clearPendingEntry", "clearAll", "exit"}
         \/ /\ last.op = "timer"
            /\ valueToString(last.entry) = k
            /\ Includes(queue, last.entry)
            /\ Quiet(pendingEntries, timers, k)
  /\ [][last'.op = "timer" =>
          /\ Cardinality(TimersOf(timers, valueToString(last'.entry))) = 1
          /\ Quiet(pendingEntries', timers', valueToString(last'.entry))
          /\ Count(queue', last'.entry) = 1]_vars

\* C35 witness: the timer of an entry has fired and admitted it, while the
\* entry of another key was submitted again and is pending still.
C35_Witness ==
  /\ last.op = "timer"
  /\ last.pushed = <<last.entry>>
  /\ ~MapHas(pendingEntries, valueToString(last.entry))
  /\ \E k \in Keys : MapHas(pendingEntries, k) /\ status[k].reset

\* C36: entries of pairwise distinct keys enqueued with the same delay are
\* admitted in their submission order: when the timer of a key fires, every
\* other key that waits with the same delay was submitted later (it has
\* waited less, or as long and stands behind in the pending map), and the
\* timer appends the very value that was submitted, whatever its type;
\* dequeue returns the head of the queue, so the values leave in the order
\* in which they were admitted, each one a submitted value.
C36_SameDelayInSubmissionOrder ==
  [][/\ last'.op = "timer" =>
          LET k == valueToString(last'.entry)
          IN /\ status[k].st = "waiting"
             /\ \A j \in Keys \ {k} :
                  (status[j].st = "waiting" /\ status[j].delay = status[k].delay)
                    => \/ status[j].waited < status[k].waited
                       \/ /\ status[j].waited = status[k].waited
                          /\ MapIndex(pendingEntries, j)
                               > MapIndex(pendingEntries, k)
             /\ queue' = IF Includes(queue, status[k].value) THEN queue
                         ELSE Append(queue, status[k].value)
     /\ (last'.op = "dequeue" /\ last'.found) =>
          /\ last'.entry = Head(queue)
          /\ last'.entry \in TypedEntries
          /\ queue' = Tail(queue)]_vars

\* C36 witness: an object, null and a boolean were admitted by their timers
\* in that order, and dequeue has returned the object.
C36_Witness ==
  /\ last.op = "dequeue"
  /\ last.found
  /\ last.entry = KeyValueObject
  /\ queue = <<Null, BooleanValue(TRUE)>>
  /\ pendingEntries = <<>>

\* C37: the value admitted for a key is the value of its most recent
\* submission.  After every step the record of a pending key, the entries
\* pendingToArray() returns for the key and the entry held by every armed
\* timer of the key are the value submitted last; an enqueue with a positive
\* delay that finds the record of a different entry of the same key leaves
\* the new entry, and not the old one, in pendingToArray(); what a timer or
\* enqueuePending() pushes for a key is the value submitted last.
C37_LatestSubmissionAdmitted ==
  [][/\ \A k \in Keys :
          MapHas(pendingEntries', k) =>
            /\ status'[k].st = "waiting"
            /\ MapGet(pendingEntries', k).value = status'[k].value
     /\ \A i \in 1 .. Len(pendingToArray'.items) :
          pendingToArray'.items[i]
            = status'[valueToString(pendingToArray'.items[i])].value
     /\ \A i \in 1 .. Len(timers') :
          /\ status'[timers'[i].key].st = "waiting"
          /\ timers'[i].entry = status'[timers'[i].key].value
     /\ (last'.op = "enqueue" /\ last'.count > 0 /\ last'.found
           /\ last'.sub.value # last'.entry) =>
          /\ Count(pendingToArray'.items, last'.entry) = 1
          /\ Count(pendingToArray'.items, last'.sub.value) = 0
          /\ Cardinality(TimersOf(timers', valueToString(last'.entry))) = 1
     /\ last'.op = "timer" =>
          /\ last'.entry = status[valueToString(last'.entry)].value
          /\ last'.pushed \in {<<>>, <<last'.entry>>}
     /\ last'.op = "enqueuePending" =>
          \A i \in 1 .. Len(last'.pushed) :
            last'.pushed[i] = status[valueToString(last'.pushed[i])].value]_vars

\* C37 witness: '1' has been enqueued with a positive delay while the
\* number 1 was pending: the one record and the one timer hold '1'.
C37_Witness ==
  /\ last.op = "enqueue"
  /\ last.count > 0
  /\ last.sub.value = NumberValue(1)
  /\ last.entry = StringValue("1")
  /\ pendingToArray.items = <<StringValue("1")>>
  /\ Len(timers) = 1
  /\ timers[1].entry = StringValue("1")

C39_FlushLeavesNothingPending ==
  [][(last'.op = "enqueuePending" /\ ~last'.found) =>
       /\ pendingEntries' = <<>>
       /\ timers' = <<>>
       /\ (\E c \in 1 .. Len(last'.calls), l \in 1 .. Len(eventListeners) :
             /\ eventListeners[l].id = last'.calls[c].id
             /\ eventListeners[l].kind = "enqueues") =>
            /\ Includes(queue', ReenteredEntry)
            /\ ~MapHas(pendingEntries', valueToString(ReenteredEntry))]_vars

\* C39 witness: enqueuePending() found one pending entry, the number 1, and
\* a listener called for it has enqueued 'a', which the same call has
\* admitted; nothing is pending.
C39_Witness ==
  /\ last.op = "enqueuePending"
  /\ last.count = 1
  /\ last.pushed = <<NumberValue(1), ReenteredEntry>>
  /\ \E l \in 1 .. Len(eventListeners) : eventListeners[l].kind = "enqueues"
  /\ pendingEntries = <<>>
  /\ queue = <<NumberValue(1), ReenteredEntry>>

\* The invocations of listener id among calls.
InvocationsOf(calls, id) ==
  Cardinality({i \in 1 .. Len(calls) : calls[i].id = id})

\* C40 as claimed: admissions are conserved.  In every step a listener that
\* is registered before and after it is invoked as many times as the step
\* appends entries (so the invocations of a listener registered from the
\* start and never removed add up to the number of entries ever appended);
\* the size of the queue grows by the entries appended and shrinks by the
\* entry dequeue returns and by what clear() counts and clearAll() removes
\* from the queue; and every entry appended is the argument of the enqueue
\* or the value of a record that was pending.
C40_Original ==
  [][/\ \A j \in 1 .. Len(eventListeners) :
          Registered(eventListeners', eventListeners[j].id) =>
            InvocationsOf(last'.calls, eventListeners[j].id)
              = Len(last'.pushed)
     /\ Len(queue') =
          Len(queue) + Len(last'.pushed)
            - (IF last'.op = "dequeue" /\ last'.found THEN 1 ELSE 0)
            - (IF last'.op = "clear" THEN last'.count ELSE 0)
            - (IF last'.op = "clearAll" THEN Len(queue) ELSE 0)
     /\ \A i \in 1 .. Len(last'.pushed) :
          /\ Includes(queue', last'.pushed[i])
          /\ \/ last'.op = "enqueue" /\ last'.pushed[i] = last'.entry
             \/ /\ MapHas(pendingEntries, valueToString(last'.pushed[i]))
                /\ MapGet(pendingEntries, valueToString(last'.pushed[i])).value
                     = last'.pushed[i]
     /\ \A i \in 1 .. Len(queue') :
          Includes(queue, queue'[i]) \/ Includes(last'.pushed, queue'[i])]_vars

====
